---- MODULE Spec2Model ----
(***************************************************************************)
(* Model of src/server.py: a process-wide GraphQL connection slot          *)
(* (graphql_client) and the five coroutines the tool host may invoke       *)
(* concurrently on one asyncio event loop.  A coroutine runs atomically    *)
(* up to its next real suspension point, which is an await of the Engine   *)
(* (session.fetch_schema / session.execute).                               *)
(*                                                                         *)
(* Text is a sequence of pieces (one-character strings where the code      *)
(* looks inside the text, longer literals elsewhere); concatenation and    *)
(* f-strings are \o.  Optional[T] is a set with at most one element:       *)
(* None is {}.  A GraphQLClient reference is its allocation index, the     *)
(* module global graphql_client = None is 0.                               *)
(*                                                                         *)
(* The Engine is what the source calls: session.fetch_schema() in          *)
(* initialize() and gql() with session.execute() in execute_query().  Each *)
(* such call is one request whose outcome the environment chooses;         *)
(* requests the client library may make on its own are not modelled.       *)
(* The constructors of the transport and of the Client do no I/O and are   *)
(* taken not to fail, so self.client is set whenever initialize() ran.     *)
(***************************************************************************)
EXTENDS Naturals, Sequences, FiniteSets

\* Number of invocations the tool host may have open at the same time.
MaxCalls == 2
\* Number of setup_connection invocations in one behaviour.
MaxSetups == 2

Procs == 1..MaxCalls

(***************************************************************************)
(* Text                                                                    *)
(***************************************************************************)
\* str.lower() on one character, for the letters the inputs use.
LowerChar(c) ==
    CASE c = "M" -> "m" [] c = "U" -> "u" [] c = "T" -> "t" [] c = "A" -> "a"
      [] c = "I" -> "i" [] c = "O" -> "o" [] c = "N" -> "n"
      [] OTHER -> c

\* str.lower()
Lower(s) == [i \in 1..Len(s) |-> LowerChar(s[i])]

\* Python's `sub in s` for strings.
Contains(sub, s) ==
    \E i \in 0..Len(s) :
        /\ i + Len(sub) <= Len(s)
        /\ \A k \in 1..Len(sub) : s[i + k] = sub[k]

MUTATION == <<"m", "u", "t", "a", "t", "i", "o", "n">>

\* Code point order of the characters that occur in type names.
Ord(c) ==
    CASE c = "B" -> 66 [] c = "M" -> 77 [] c = "Q" -> 81 [] c = "U" -> 85
      [] c = "a" -> 97 [] c = "e" -> 101 [] c = "i" -> 105 [] c = "k" -> 107
      [] c = "n" -> 110 [] c = "o" -> 111 [] c = "r" -> 114 [] c = "s" -> 115
      [] c = "t" -> 116 [] c = "u" -> 117 [] c = "w" -> 119 [] c = "y" -> 121
      [] OTHER -> 0

\* Python's str.__lt__: lexicographic by code point, a proper prefix is less.
RECURSIVE StrLess(_, _)
StrLess(a, b) ==
    IF b = <<>> THEN FALSE
    ELSE IF a = <<>> THEN TRUE
    ELSE IF Ord(Head(a)) # Ord(Head(b)) THEN Ord(Head(a)) < Ord(Head(b))
    ELSE StrLess(Tail(a), Tail(b))

\* As Sorted, in descending order.
RECURSIVE SortedDescending(_)
SortedDescending(S) ==
    IF S = {} THEN <<>>
    ELSE LET m == CHOOSE x \in S : \A y \in S \ {x} : StrLess(y, x)
         IN  <<m>> \o SortedDescending(S \ {m})

\* sorted(names) for a collection of distinct strings.
RECURSIVE Sorted(_)
Sorted(S) ==
    IF S = {} THEN <<>>
    ELSE LET m == CHOOSE x \in S : \A y \in S \ {x} : StrLess(x, y)
         IN  <<m>> \o Sorted(S \ {m})

\* "\n".join(names)
RECURSIVE Join(_)
Join(names) ==
    IF names = <<>> THEN <<>>
    ELSE IF Len(names) = 1 THEN Head(names)
    ELSE Head(names) \o <<"\n">> \o Join(Tail(names))

\* str(d) of a dict, d given as its sequence of <<key, value text>> items.
RECURSIVE DictItems(_)
DictItems(d) ==
    IF d = <<>> THEN <<>>
    ELSE <<"'", Head(d)[1], "': '">> \o Head(d)[2] \o <<"'">>
         \o (IF Len(d) > 1 THEN <<", ">> ELSE <<>>) \o DictItems(Tail(d))

DictStr(d) == <<"{">> \o DictItems(d) \o <<"}">>

\* Python truthiness of an Optional[str]: None and "" are falsy.
Truthy(opt) == opt # {} /\ (CHOOSE x \in opt : TRUE) # <<>>

Some(opt) == CHOOSE x \in opt : TRUE

(***************************************************************************)
(* The strings the tools return                                            *)
(***************************************************************************)
GUIDANCE == <<"Error: Please set up connection first using setup_connection">>
REJECTION == <<"Error: Mutations are not allowed">>
CONNECTED == <<"Successfully connected to GraphQL endpoint">>
FAILED_PREFIX == "Failed to connect: "
UNEXPECTED_PREFIX == "Unexpected error: "

\* How an invocation ends: a returned string or an exception that leaves it.
Return(text) == [kind |-> "return", text |-> text]
Raise(exc) == [kind |-> "raise", text |-> <<exc>>]
NoResult == [kind |-> "none", text |-> <<>>]

(***************************************************************************)
(* Inputs and the Engine (gql client library and the remote endpoint)      *)
(***************************************************************************)
Endpoints == {"http://a/graphql", "http://b/graphql"}

Tokens == {{}, {<<>>}, {<<"t", "0", "k">>}}

\* A read query, and texts with "mutation" at the start in lower case, at the
\* end in mixed case, and cut short by one letter.
Queries ==
    { <<"{", "A", "}">>,
      <<"m", "u", "t", "a", "t", "i", "o", "n", "{", "A", "}">>,
      <<"{", "A", "}", "#", "M", "u", "T", "A", "t", "I", "O", "N">>,
      <<"{", "m", "u", "t", "a", "t", "i", "o", "}">> }

Variables == {{}, {<< <<"id", <<"1">> >> >>}}

Query == <<"Q", "u", "e", "r", "y">>
Mutation == <<"M", "u", "t", "a", "t", "i", "o", "n">>
User == <<"U", "s", "e", "r">>
Book == <<"B", "o", "o", "k">>
Unknown == <<"U", "n", "k", "n", "o", "w", "n">>

TypeNames == {User, Unknown}

\* schema.type_map of the schema each endpoint serves.
TypeMap(url) ==
    IF url = "http://a/graphql" THEN {Query, Mutation, User} ELSE {Query, Book}

\* Messages of the exceptions the Engine raises.
FetchErrors == {"Cannot connect to host"}
QueryErrors == {"Cannot query field"}
OtherErrors == {"Syntax Error"}

\* Result mappings the Engine returns for a query.
ResultMaps == { << <<"a", <<"1">> >> >> }

NoOutcome == [kind |-> "none", map |-> <<>>, msg |-> ""]

FetchOutcomes ==
    {[ok |-> TRUE, msg |-> ""]} \cup [ok : {FALSE}, msg : FetchErrors]

EngineOutcomes ==
    [kind : {"result"}, map : ResultMaps, msg : {""}]
      \cup [kind : {"query_error"}, map : {<<>>}, msg : QueryErrors]
      \cup [kind : {"other_error"}, map : {<<>>}, msg : OtherErrors]

(***************************************************************************)
(* State                                                                   *)
(***************************************************************************)
VARIABLES
    graphql_client,   \* the module global: 0 (None) or the index of a client
    clients,          \* every GraphQLClient constructed so far, by index
    calls             \* the invocations the tool host has open, by slot

vars == <<graphql_client, clients, calls>>

\* GraphQLClient.__init__: transport and client are None, no schema yet.
\* client is whether self.client (and with it self.transport) is set; schema
\* is self.client.schema, the endpoint it was introspected from; fetches
\* counts the session.fetch_schema() calls made on this object.
NewClient(endpoint_url, headers) ==
    [endpoint_url |-> endpoint_url, headers |-> headers,
     client |-> FALSE, schema |-> {}, fetches |-> 0]

\* A slot of the tool host with no invocation in it.  Beside the arguments
\* and the position (pc) a slot records what the invocation did: the client
\* it constructed (made), its session.fetch_schema() calls (fetches) and how
\* the last one ended (fetched), the Engine requests it sent (sent) and the
\* Engine's answer (outcome), the setup_connection calls it overlapped with
\* (overlap) and whether one of those, invoked after it, returned before it
\* (late).  self is the client whose method the call runs or ran, read the
\* client whose schema get_type_info or list_types read through the global.
Idle ==
    [op |-> "none", pc |-> "idle", self |-> 0, read |-> 0, conn |-> 0,
     ready |-> FALSE,
     endpoint_url |-> "", auth_token |-> {}, query |-> <<>>, variables |-> {},
     type_name |-> <<>>, made |-> 0, fetches |-> 0, fetched |-> "none",
     sent |-> <<>>, outcome |-> NoOutcome, overlap |-> {}, late |-> FALSE,
     result |-> NoResult]

\* A fresh invocation of op: conn is the value of graphql_client it finds and
\* ready whether that client has a schema.
Invoke(op) ==
    [Idle EXCEPT !.op = op, !.conn = graphql_client,
                 !.ready = (graphql_client # 0 /\ clients[graphql_client].schema # {})]

\* The invocation ends with result r.
Finish(c, r) == [c EXCEPT !.pc = "done", !.result = r]

Init ==
    /\ graphql_client = 0
    /\ clients = <<>>
    /\ calls = [p \in Procs |-> Idle]

(***************************************************************************)
(* class GraphQLClient                                                     *)
(***************************************************************************)
\* As NeedsInitialize, testing for the schema: initialize() fetches again
\* after a failed fetch.
NeedsInitializeNoSchema(o) == o.schema = {}

\* As NeedsInitialize, without the guard: initialize() fetches on every call.
NeedsInitializeAlways(o) == TRUE

\* initialize(), line 19: the guard `if not self.client`.
NeedsInitialize(o) == ~o.client

\* initialize(), lines 20-30 up to the await: transport and client are set
\* and session.fetch_schema() is called.
BeginInitialize(o) == [o EXCEPT !.client = TRUE, !.fetches = @ + 1]

\* initialize(), line 30 resumed: a successful fetch stores the schema in
\* self.client, a failed one raises and leaves self.client as it is.
EndInitialize(o, ok) == IF ok THEN [o EXCEPT !.schema = {o.endpoint_url}] ELSE o

\* As EngineRequest, sending the lower-cased text the guardrail looked at.
EngineRequestLowered(self, query, variables) ==
    [client |-> self, endpoint_url |-> clients[self].endpoint_url,
     headers |-> clients[self].headers, query |-> Lower(query),
     variables |-> variables]

\* execute_query(), lines 38-40: the Engine request for one query.
EngineRequest(self, query, variables) ==
    [client |-> self, endpoint_url |-> clients[self].endpoint_url,
     headers |-> clients[self].headers, query |-> query, variables |-> variables]

\* As QueryResult, with the single handler `except Exception` for every
\* failure.
QueryResultOneHandler(out) ==
    IF out.kind = "result" THEN out.map
    ELSE << <<"error", <<UNEXPECTED_PREFIX, out.msg>> >> >>

\* execute_query(), lines 41-45: the dict the method returns.
QueryResult(out) ==
    IF out.kind = "result" THEN out.map
    ELSE IF out.kind = "query_error" THEN << <<"error", <<out.msg>> >> >>
    ELSE << <<"error", <<UNEXPECTED_PREFIX, out.msg>> >> >>

\* get_schema(), line 51: str(self.client.schema); str(None) is "None".
SchemaText(schema) ==
    IF schema = {} THEN <<"None">> ELSE <<"<GraphQLSchema ", Some(schema), ">">>

(***************************************************************************)
(* The tools                                                               *)
(***************************************************************************)
\* As Headers, keeping the headers of the connection being replaced when the
\* call gives no token.
HeadersMerged(auth_token) ==
    IF Truthy(auth_token)
    THEN {<< <<"Authorization", <<"Bearer ">> \o Some(auth_token)>> >>}
    ELSE IF graphql_client # 0 THEN clients[graphql_client].headers ELSE {}

\* setup_connection, line 66.
Headers(auth_token) ==
    IF Truthy(auth_token)
    THEN {<< <<"Authorization", <<"Bearer ">> \o Some(auth_token)>> >>}
    ELSE {}

\* As SetupClient, creating the connection only when there is none yet.
SetupClientKeep(new) == IF graphql_client # 0 THEN graphql_client ELSE new

\* setup_connection, line 68: the value assigned to the global.
SetupClient(new) == new

\* As SetupResult, reporting success whatever initialize() did.
SetupResultAlwaysOk(ok, msg) == Return(CONNECTED)

\* As SetupResult, without the try/except around initialize().
SetupResultUncaught(ok, msg) ==
    IF ok THEN Return(CONNECTED) ELSE Raise(msg)

\* setup_connection, lines 70-72: what the call returns once initialize()
\* has ended, msg being str(e) of the exception it raised.
SetupResult(ok, msg) ==
    IF ok THEN Return(CONNECTED) ELSE Return(<<FAILED_PREFIX, msg>>)

\* As IsMutation, without lower-casing the text first.
IsMutationCaseSensitive(query) == Contains(MUTATION, query)

\* execute_query, line 86.
IsMutation(query) == Contains(MUTATION, Lower(query))

\* As ExecuteChecks, with the guardrail before the connection check.
ExecuteChecksGuardFirst(g, query) ==
    IF IsMutation(query) THEN "rejection"
    ELSE IF g = 0 THEN "guidance"
    ELSE "delegate"

\* execute_query, lines 82-89: the order of the checks.
ExecuteChecks(g, query) ==
    IF g = 0 THEN "guidance"
    ELSE IF IsMutation(query) THEN "rejection"
    ELSE "delegate"

\* execute_query, line 90.
ExecuteResult(out) == Return(DictStr(QueryResult(out)))

\* As TypeInfoResult, without the `if not type_def` branch: str(None).
TypeInfoResultUnchecked(g, cl, type_name) ==
    IF cl[g].schema = {} THEN Raise("AttributeError")
    ELSE IF type_name \in TypeMap(Some(cl[g].schema)) THEN Return(type_name)
    ELSE Return(<<"None">>)

\* get_type_info, lines 111-117, and list_types, lines 126-128: both read
\* graphql_client.client.schema through the global; on None the attribute
\* access raises AttributeError.
TypeInfoResult(g, cl, type_name) ==
    IF cl[g].schema = {} THEN Raise("AttributeError")
    ELSE IF type_name \in TypeMap(Some(cl[g].schema)) THEN Return(type_name)
    ELSE Return(<<"Type '">> \o type_name \o <<"' not found in schema">>)

ListTypesResult(g, cl) ==
    IF cl[g].schema = {} THEN Raise("AttributeError")
    ELSE Return(Join(Sorted(TypeMap(Some(cl[g].schema)))))

\* As SetupResumeClient, publishing the client only once it is initialized.
SetupResumeClientAssign(self) == self

\* As ExecuteResumeClient, dropping the connection when the Engine failed.
ExecuteResumeClientReset(out) ==
    IF out.kind = "result" THEN graphql_client ELSE 0

\* execute_query, lines 89-90, and GraphQLClient.execute_query, lines 41-45:
\* no branch assigns the global.
ExecuteResumeClient(out) == graphql_client

\* setup_connection, lines 69-72: nothing after the await assigns the global.
SetupResumeClient(self) == graphql_client

(***************************************************************************)
(* Actions: an invocation up to its first await, the Engine's answers, and *)
(* the tool host taking the result.                                        *)
(***************************************************************************)
\* The setup_connection calls suspended in their schema fetch.
SetupsInFlight ==
    {q \in Procs : calls[q].op = "setup_connection" /\ calls[q].pc = "fetching"}

\* setup_connection, lines 64-69 (and 70 when initialize() has nothing to do).
SetupConnection(p, endpoint_url, auth_token) ==
    /\ calls[p].pc = "idle"
    /\ Len(clients) < MaxSetups
    /\ LET new == Len(clients) + 1
           heap == Append(clients, NewClient(endpoint_url, Headers(auth_token)))
           g == SetupClient(new)
           c == [Invoke("setup_connection") EXCEPT
                    !.endpoint_url = endpoint_url, !.auth_token = auth_token,
                    !.self = g, !.made = new,
                    !.overlap = {calls[q].made : q \in SetupsInFlight}]
           others == [q \in Procs |->
                        IF q \in SetupsInFlight
                        THEN [calls[q] EXCEPT !.overlap = @ \cup {new}]
                        ELSE calls[q]]
       IN  /\ graphql_client' = g
           /\ IF NeedsInitialize(heap[g])
              THEN /\ clients' = [heap EXCEPT ![g] = BeginInitialize(@)]
                   /\ calls' = [others EXCEPT
                                  ![p] = [c EXCEPT !.pc = "fetching", !.fetches = 1]]
              ELSE /\ clients' = heap
                   /\ calls' = [others EXCEPT ![p] = Finish(c, SetupResult(TRUE, ""))]

\* execute_query, lines 82-89, and GraphQLClient.execute_query, lines 34-40.
ExecuteQuery(p, query, variables) ==
    /\ calls[p].pc = "idle"
    /\ LET c == [Invoke("execute_query") EXCEPT
                    !.query = query, !.variables = variables]
           self == graphql_client
           check == ExecuteChecks(graphql_client, query)
       IN  IF check = "guidance"
           THEN /\ calls' = [calls EXCEPT ![p] = Finish(c, Return(GUIDANCE))]
                /\ UNCHANGED <<graphql_client, clients>>
           ELSE IF check = "rejection"
           THEN /\ calls' = [calls EXCEPT ![p] = Finish(c, Return(REJECTION))]
                /\ UNCHANGED <<graphql_client, clients>>
           ELSE IF NeedsInitialize(clients[self])
           THEN /\ clients' = [clients EXCEPT ![self] = BeginInitialize(@)]
                /\ calls' = [calls EXCEPT ![p] =
                               [c EXCEPT !.self = self, !.pc = "fetching",
                                         !.fetches = 1]]
                /\ UNCHANGED graphql_client
           ELSE /\ calls' = [calls EXCEPT ![p] =
                               [c EXCEPT !.self = self, !.pc = "executing",
                                         !.sent = <<EngineRequest(self, query, variables)>>]]
                /\ UNCHANGED <<graphql_client, clients>>

\* get_schema, lines 95-98, and GraphQLClient.get_schema, lines 49-51.
GetSchema(p) ==
    /\ calls[p].pc = "idle"
    /\ LET c == Invoke("get_schema")
           self == graphql_client
       IN  IF graphql_client = 0
           THEN /\ calls' = [calls EXCEPT ![p] = Finish(c, Return(GUIDANCE))]
                /\ UNCHANGED <<graphql_client, clients>>
           ELSE IF NeedsInitialize(clients[self])
           THEN /\ clients' = [clients EXCEPT ![self] = BeginInitialize(@)]
                /\ calls' = [calls EXCEPT ![p] =
                               [c EXCEPT !.self = self, !.pc = "fetching",
                                         !.fetches = 1]]
                /\ UNCHANGED graphql_client
           ELSE /\ calls' = [calls EXCEPT ![p] =
                               Finish([c EXCEPT !.self = self],
                                      Return(SchemaText(clients[self].schema)))]
                /\ UNCHANGED <<graphql_client, clients>>

\* get_type_info, lines 107-117.
GetTypeInfo(p, type_name) ==
    /\ calls[p].pc = "idle"
    /\ LET c == [Invoke("get_type_info") EXCEPT !.type_name = type_name]
           self == graphql_client
       IN  IF graphql_client = 0
           THEN /\ calls' = [calls EXCEPT ![p] = Finish(c, Return(GUIDANCE))]
                /\ UNCHANGED <<graphql_client, clients>>
           ELSE IF NeedsInitialize(clients[self])
           THEN /\ clients' = [clients EXCEPT ![self] = BeginInitialize(@)]
                /\ calls' = [calls EXCEPT ![p] =
                               [c EXCEPT !.self = self, !.pc = "fetching",
                                         !.fetches = 1]]
                /\ UNCHANGED graphql_client
           ELSE /\ calls' = [calls EXCEPT ![p] =
                               Finish([c EXCEPT !.self = self, !.read = graphql_client],
                                      TypeInfoResult(graphql_client, clients, type_name))]
                /\ UNCHANGED <<graphql_client, clients>>

\* list_types, lines 122-128.
ListTypes(p) ==
    /\ calls[p].pc = "idle"
    /\ LET c == Invoke("list_types")
           self == graphql_client
       IN  IF graphql_client = 0
           THEN /\ calls' = [calls EXCEPT ![p] = Finish(c, Return(GUIDANCE))]
                /\ UNCHANGED <<graphql_client, clients>>
           ELSE IF NeedsInitialize(clients[self])
           THEN /\ clients' = [clients EXCEPT ![self] = BeginInitialize(@)]
                /\ calls' = [calls EXCEPT ![p] =
                               [c EXCEPT !.self = self, !.pc = "fetching",
                                         !.fetches = 1]]
                /\ UNCHANGED graphql_client
           ELSE /\ calls' = [calls EXCEPT ![p] =
                               Finish([c EXCEPT !.self = self, !.read = graphql_client],
                                      ListTypesResult(graphql_client, clients))]
                /\ UNCHANGED <<graphql_client, clients>>

\* `await session.fetch_schema()` of initialize() ends with res, and the
\* caller of initialize() runs on: setup_connection to its return, lines
\* 70-72; GraphQLClient.execute_query into its try block, lines 37-40;
\* GraphQLClient.get_schema to line 51; get_type_info and list_types to
\* their reads of the global, lines 111 and 126.  Only setup_connection
\* catches the exception of a failed fetch.
FetchSchemaDone(p, res) ==
    /\ calls[p].pc = "fetching"
    /\ LET c0 == calls[p]
           self == c0.self
           heap == [clients EXCEPT ![self] = EndInitialize(@, res.ok)]
           g == IF c0.op = "setup_connection"
                THEN SetupResumeClient(self) ELSE graphql_client
           c == [c0 EXCEPT !.fetched = IF res.ok THEN "ok" ELSE "failed"]
           returned == {calls[q].made :
                          q \in {r \in Procs : /\ calls[r].op = "setup_connection"
                                               /\ calls[r].pc = "done"}}
       IN  /\ clients' = heap
           /\ graphql_client' = g
           /\ calls' = [calls EXCEPT ![p] =
                 CASE c.op = "setup_connection" ->
                        Finish([c EXCEPT !.late =
                                   \E m \in returned \cap c.overlap : m > c.made],
                               SetupResult(res.ok, res.msg))
                   [] c.op = "execute_query" ->
                        IF res.ok
                        THEN [c EXCEPT !.pc = "executing",
                                       !.sent = Append(@, EngineRequest(self, c.query,
                                                                        c.variables))]
                        ELSE Finish(c, Raise(res.msg))
                   [] c.op = "get_schema" ->
                        IF res.ok
                        THEN Finish(c, Return(SchemaText(heap[self].schema)))
                        ELSE Finish(c, Raise(res.msg))
                   [] c.op = "get_type_info" ->
                        IF res.ok
                        THEN Finish([c EXCEPT !.read = g],
                                    TypeInfoResult(g, heap, c.type_name))
                        ELSE Finish(c, Raise(res.msg))
                   [] OTHER ->
                        IF res.ok
                        THEN Finish([c EXCEPT !.read = g], ListTypesResult(g, heap))
                        ELSE Finish(c, Raise(res.msg))]

\* GraphQLClient.execute_query, lines 38-45, and execute_query, line 90: the
\* Engine answers the request with out.
ExecuteDone(p, out) ==
    /\ calls[p].pc = "executing"
    /\ calls' = [calls EXCEPT ![p] =
                   Finish([calls[p] EXCEPT !.outcome = out], ExecuteResult(out))]
    /\ graphql_client' = ExecuteResumeClient(out)
    /\ UNCHANGED clients

\* The tool host takes the result of a finished invocation.
Deliver(p) ==
    /\ calls[p].pc = "done"
    /\ calls' = [calls EXCEPT ![p] = Idle]
    /\ UNCHANGED <<graphql_client, clients>>

Next ==
    \E p \in Procs :
        \/ \E u \in Endpoints, t \in Tokens : SetupConnection(p, u, t)
        \/ \E q \in Queries, v \in Variables : ExecuteQuery(p, q, v)
        \/ GetSchema(p)
        \/ \E n \in TypeNames : GetTypeInfo(p, n)
        \/ ListTypes(p)
        \/ \E res \in FetchOutcomes : FetchSchemaDone(p, res)
        \/ \E out \in EngineOutcomes : ExecuteDone(p, out)
        \/ Deliver(p)

Spec == Init /\ [][Next]_vars

(***************************************************************************)
(* Vocabulary of the properties                                            *)
(***************************************************************************)
Done(p) == calls[p].pc = "done"

Readers == {"execute_query", "get_schema", "get_type_info", "list_types"}

\* No setup_connection has succeeded so far: no client ever got a schema.
NoSuccessfulSetup == \A i \in 1..Len(clients) : clients[i].schema = {}

\* The text has the letters m-u-t-a-t-i-o-n in a row, each in either case.
MentionsMutation(q) ==
    \E i \in 1..Len(q) :
        /\ i + 7 <= Len(q)
        /\ q[i] \in {"m", "M"}     /\ q[i + 1] \in {"u", "U"}
        /\ q[i + 2] \in {"t", "T"} /\ q[i + 3] \in {"a", "A"}
        /\ q[i + 4] \in {"t", "T"} /\ q[i + 5] \in {"i", "I"}
        /\ q[i + 6] \in {"o", "O"} /\ q[i + 7] \in {"n", "N"}

\* The connection holder has no live client.
Uninitialized == graphql_client = 0 \/ ~clients[graphql_client].client

\* C1: before any successful setup_connection (also after failed ones), every
\* other operation returns exactly the guidance string.
C1_GuidanceBeforeSuccess ==
    \A p \in Procs :
        (/\ Done(p) /\ calls[p].op \in Readers
         /\ NoSuccessfulSetup /\ SetupsInFlight = {})
        => calls[p].result = Return(GUIDANCE)

\* C2: with a connection, execute_query on a text that mentions "mutation"
\* in any letter case returns the rejection string and calls the Engine
\* neither for a schema fetch nor for a query.
C2_MutationRejected ==
    \A p \in Procs :
        (/\ Done(p) /\ calls[p].op = "execute_query"
         /\ calls[p].conn # 0 /\ MentionsMutation(calls[p].query))
        => /\ calls[p].result = Return(REJECTION)
           /\ calls[p].sent = <<>>
           /\ calls[p].fetches = 0
           /\ calls[p].fetched = "none"

\* A mixed-case "mutation" that is not at the start of the text was rejected,
\* variables given.
C2_Witness ==
    \E p \in Procs :
        /\ Done(p) /\ calls[p].op = "execute_query" /\ calls[p].conn # 0
        /\ MentionsMutation(calls[p].query)
        /\ calls[p].query # Lower(calls[p].query)
        /\ Head(calls[p].query) = "{"
        /\ calls[p].variables # {}
        /\ calls[p].result = Return(REJECTION)

\* C3: every operation ends by returning a string, in every state; no
\* failure leaves an operation as a raised exception.
C3_NeverRaises ==
    \A p \in Procs : Done(p) => calls[p].result.kind = "return"

\* C4: after a failed initialization attempt the connection holder is
\* Uninitialized: the client whose schema fetch failed is not kept as the
\* current connection.
C4_FailedInitLeavesUninitialized ==
    \A p \in Procs :
        (/\ Done(p) /\ calls[p].op = "setup_connection"
         /\ calls[p].fetched = "failed"
         /\ calls[p].made = Len(clients))
        => Uninitialized

\* C5: on a Ready connection, execute_query on a text that does not mention
\* "mutation" sends exactly one Engine request, with the query text and the
\* variables as given and to the current client, fetches no schema, and
\* returns the text of the result mapping the Engine answered with.
C5_DelegatesOnce ==
    \A p \in Procs :
        (/\ Done(p) /\ calls[p].op = "execute_query"
         /\ calls[p].ready /\ ~MentionsMutation(calls[p].query))
        => /\ Len(calls[p].sent) = 1
           /\ calls[p].sent[1].query = calls[p].query
           /\ calls[p].sent[1].variables = calls[p].variables
           /\ calls[p].sent[1].client = calls[p].conn
           /\ calls[p].fetches = 0
           /\ calls[p].result.kind = "return"
           /\ (calls[p].outcome.map = << <<"a", <<"1">> >> >>
                 => calls[p].result.text = <<"{", "'", "a", "': '", "1", "'", "}">>)

\* A read query with upper-case letters and variables was answered with a
\* result mapping on a Ready connection.
C5_Witness ==
    \E p \in Procs :
        /\ Done(p) /\ calls[p].op = "execute_query" /\ calls[p].ready
        /\ ~MentionsMutation(calls[p].query)
        /\ calls[p].query # Lower(calls[p].query)
        /\ calls[p].variables # {}
        /\ calls[p].outcome.kind = "result"

\* C6: the schema is fetched exactly once per client: an execute_query,
\* get_schema, get_type_info or list_types call that finds a connection
\* fetches nothing, however many of them run and in whatever order.
C6_InitializedOnce ==
    /\ \A i \in 1..Len(clients) : clients[i].fetches = 1
    /\ \A p \in Procs :
          (calls[p].op \in Readers /\ calls[p].conn # 0)
          => calls[p].fetches = 0 /\ calls[p].pc # "fetching"

\* Two different operations that call initialize() have both ended on the
\* same client.
C6_Witness ==
    \E p, q \in Procs :
        /\ Done(p) /\ calls[p].op = "get_type_info"
        /\ Done(q) /\ calls[q].op = "list_types"
        /\ calls[p].conn # 0 /\ calls[p].conn = calls[q].conn
        /\ calls[p].result.kind = "return" /\ calls[q].result.kind = "return"
        /\ clients[calls[p].conn].fetches = 1

\* C7: after setup_connection calls that did not overlap, the current
\* connection is the client of the most recent call, with that call's
\* endpoint and the headers of that call's token alone, and with no schema
\* but its own.
C7_LastSetupReplaces ==
    \A p \in Procs :
        (/\ Done(p) /\ calls[p].op = "setup_connection"
         /\ calls[p].overlap = {} /\ SetupsInFlight = {}
         /\ calls[p].made = Len(clients))
        => /\ graphql_client = calls[p].made
           /\ LET o == clients[graphql_client]
              IN  /\ o.endpoint_url = calls[p].endpoint_url
                  /\ calls[p].auth_token = {} => o.headers = {}
                  /\ o.headers # {} =>
                        /\ calls[p].auth_token # {}
                        /\ o.headers = {<< <<"Authorization",
                                            <<"Bearer ">> \o Some(calls[p].auth_token)>> >>}
                  /\ o.schema \subseteq {calls[p].endpoint_url}

\* A setup with a token became Ready; a later setup without a token, on the
\* other endpoint, has returned.
C7_Witness ==
    \E p \in Procs :
        /\ Done(p) /\ calls[p].op = "setup_connection"
        /\ calls[p].overlap = {} /\ SetupsInFlight = {}
        /\ calls[p].made = Len(clients) /\ calls[p].made > 1
        /\ calls[p].auth_token = {}
        /\ clients[1].headers # {} /\ clients[1].schema # {}
        /\ clients[1].endpoint_url # calls[p].endpoint_url

\* C8: a setup_connection call fetches the schema at most once and never
\* raises; it returns the success string exactly when that fetch succeeded
\* and a string starting with "Failed to connect: " otherwise.
C8_SetupOneAttempt ==
    \A p \in Procs :
        (Done(p) /\ calls[p].op = "setup_connection")
        => /\ calls[p].fetches <= 1
           /\ clients[calls[p].made].fetches <= 1
           /\ calls[p].result.kind = "return"
           /\ (calls[p].result.text = CONNECTED) <=> (calls[p].fetched = "ok")
           /\ calls[p].fetched # "ok" =>
                 /\ Len(calls[p].result.text) = 2
                 /\ Head(calls[p].result.text) = FAILED_PREFIX

\* One setup_connection has returned after a failed fetch and another after
\* a successful one.
C8_Witness ==
    \E p, q \in Procs :
        /\ Done(p) /\ calls[p].op = "setup_connection" /\ calls[p].fetched = "failed"
        /\ Done(q) /\ calls[q].op = "setup_connection" /\ calls[q].fetched = "ok"

\* C9: when two setup_connection calls overlap, once both have returned the
\* current connection is the client of the call invoked later, in whichever
\* order their schema fetches ended.
C9_LaterSetupWins ==
    \A p, q \in Procs :
        (/\ Done(p) /\ calls[p].op = "setup_connection"
         /\ Done(q) /\ calls[q].op = "setup_connection"
         /\ calls[q].made \in calls[p].overlap
         /\ calls[p].made < calls[q].made
         /\ calls[q].made = Len(clients))
        => graphql_client = calls[q].made

\* The call invoked first returned last, after the later call had returned.
C9_Witness ==
    \E p, q \in Procs :
        /\ Done(p) /\ calls[p].op = "setup_connection"
        /\ Done(q) /\ calls[q].op = "setup_connection"
        /\ calls[q].made \in calls[p].overlap
        /\ calls[p].made < calls[q].made
        /\ calls[p].late
        /\ calls[p].fetched = "ok" /\ calls[q].fetched = "ok"

\* What the operations answer from the schema of endpoint url.
ServedFrom(c, url) ==
    /\ c.result.kind = "return"
    /\ c.result.text # GUIDANCE
    /\ c.op = "get_schema" => c.result.text = <<"<GraphQLSchema ", url, ">">>
    /\ c.op = "list_types" =>
          c.result.text = (IF url = "http://a/graphql"
                           THEN Mutation \o <<"\n">> \o Query \o <<"\n">> \o User
                           ELSE Book \o <<"\n">> \o Query)
    /\ c.op = "get_type_info" =>
          c.result.text = (IF c.type_name = User /\ url = "http://a/graphql"
                           THEN User
                           ELSE <<"Type '">> \o c.type_name
                                  \o <<"' not found in schema">>)
    /\ (c.op = "execute_query" /\ ~MentionsMutation(c.query)) =>
          /\ Len(c.sent) = 1
          /\ c.sent[1].endpoint_url = url

\* C10: whatever calls failed before, a setup_connection call attempts its
\* own schema fetch, and when that succeeds it returns the success string and
\* leaves the connection Ready on its endpoint; the calls that find the
\* connection Ready are served from the schema of that endpoint.
C10_RecoversAfterErrors ==
    /\ \A p \in Procs :
          (Done(p) /\ calls[p].op = "setup_connection")
          => /\ calls[p].fetches = 1
             /\ calls[p].fetched = "ok" =>
                   /\ calls[p].result = Return(CONNECTED)
                   /\ calls[p].made = Len(clients) =>
                         /\ graphql_client = calls[p].made
                         /\ clients[graphql_client].schema = {calls[p].endpoint_url}
    /\ \A p \in Procs :
          (Done(p) /\ calls[p].op \in Readers /\ calls[p].ready)
          => ServedFrom(calls[p], clients[calls[p].conn].endpoint_url)

\* A first setup failed, a second one on the other endpoint succeeded, and a
\* list_types call was then served from the second endpoint.
C10_Witness ==
    \E p, q \in Procs :
        /\ Len(clients) = 2
        /\ clients[1].schema = {} /\ clients[1].client
        /\ clients[1].endpoint_url # clients[2].endpoint_url
        /\ Done(p) /\ calls[p].op = "setup_connection" /\ calls[p].made = 2
        /\ calls[p].overlap = {} /\ calls[p].result = Return(CONNECTED)
        /\ Done(q) /\ calls[q].op = "list_types"
        /\ calls[q].conn = 2 /\ calls[q].ready
        /\ calls[q].result.kind = "return"

\* C11: a setup_connection call given a token, the empty string included,
\* stores the single header Authorization -> "Bearer <token>"; a call given
\* no token stores no headers.
C11_TokenGivesBearer ==
    \A p \in Procs :
        (calls[p].op = "setup_connection" /\ calls[p].pc # "idle")
        => LET o == clients[calls[p].made]
           IN  /\ calls[p].auth_token = {} => o.headers = {}
               /\ calls[p].auth_token # {} =>
                     o.headers = {<< <<"Authorization",
                                      <<"Bearer ">> \o Some(calls[p].auth_token)>> >>}

\* C12: on a Ready connection list_types returns every type name of the
\* registry once, in ascending lexicographic order, separated by single
\* newlines with none at either end: "Mutation\nQuery\nUser" for the registry
\* {Query, Mutation, User}.
C12_ListTypesSorted ==
    \A p \in Procs :
        (Done(p) /\ calls[p].op = "list_types" /\ calls[p].ready)
        => /\ calls[p].result.kind = "return"
           /\ calls[p].result.text =
                 (IF TypeMap(clients[calls[p].conn].endpoint_url)
                       = {Query, Mutation, User}
                  THEN <<"M", "u", "t", "a", "t", "i", "o", "n", "\n",
                         "Q", "u", "e", "r", "y", "\n",
                         "U", "s", "e", "r">>
                  ELSE <<"B", "o", "o", "k", "\n", "Q", "u", "e", "r", "y">>)

\* list_types has answered on a Ready connection whose registry is
\* {Query, Mutation, User}.
C12_Witness ==
    \E p \in Procs :
        /\ Done(p) /\ calls[p].op = "list_types" /\ calls[p].ready
        /\ TypeMap(clients[calls[p].conn].endpoint_url) = {Query, Mutation, User}
        /\ calls[p].result.kind = "return"

\* C13: on a Ready connection get_type_info returns the text of the type
\* when the name is in the registry and "Type '<name>' not found in schema"
\* otherwise, and in both cases ends without a schema fetch and leaves the
\* global and every client as they were.
C13_TypeInfo ==
    [][\A p \in Procs :
          (/\ calls[p].pc = "idle"
           /\ calls'[p].op = "get_type_info"
           /\ calls'[p].ready)
          => /\ calls'[p].pc = "done"
             /\ calls'[p].fetches = 0
             /\ calls'[p].result =
                   (IF calls'[p].type_name
                         \in TypeMap(clients[graphql_client].endpoint_url)
                    THEN Return(calls'[p].type_name)
                    ELSE Return(<<"Type '">> \o calls'[p].type_name
                                  \o <<"' not found in schema">>))
             /\ UNCHANGED <<graphql_client, clients>>]_vars

\* On Ready connections one get_type_info call found its type and another
\* did not.
C13_Witness ==
    \E p, q \in Procs :
        /\ Done(p) /\ calls[p].op = "get_type_info" /\ calls[p].ready
        /\ calls[p].result = Return(calls[p].type_name)
        /\ Done(q) /\ calls[q].op = "get_type_info" /\ calls[q].ready
        /\ calls[q].type_name = Unknown
        /\ calls[q].result.text =
              <<"Type '", "U", "n", "k", "n", "o", "w", "n", "' not found in schema">>

\* C14: execute_query checks the connection first, the guardrail second and
\* delegates last: without a connection it returns the guidance string even
\* for a text that mentions "mutation", with a connection such a text gets
\* the rejection string, and an Engine request is sent only when there is a
\* connection and the text does not mention "mutation".
C14_CheckOrder ==
    \A p \in Procs :
        calls[p].op = "execute_query"
        => /\ (Done(p) /\ calls[p].conn = 0)
                => calls[p].result = Return(GUIDANCE)
           /\ (Done(p) /\ calls[p].conn # 0 /\ MentionsMutation(calls[p].query))
                => calls[p].result = Return(REJECTION)
           /\ (calls[p].sent # <<>> \/ calls[p].fetches # 0 \/ calls[p].pc = "executing")
                => (calls[p].conn # 0 /\ ~MentionsMutation(calls[p].query))
           /\ (Done(p) /\ calls[p].conn # 0 /\ ~MentionsMutation(calls[p].query))
                => Len(calls[p].sent) = 1

\* Without a connection a text that mentions "mutation" got the guidance
\* string.
C14_Witness ==
    \E p \in Procs :
        /\ Done(p) /\ calls[p].op = "execute_query" /\ calls[p].conn = 0
        /\ MentionsMutation(calls[p].query)
        /\ calls[p].result = Return(GUIDANCE)
        /\ calls[p].sent = <<>>

\* C15: a delegated execute_query sends at most one Engine request and turns
\* every failure of it into a returned text: {'error': '<message>'} for a
\* query-level failure, {'error': 'Unexpected error: <message>'} for any
\* other failure.
C15_FailuresBecomeText ==
    \A p \in Procs :
        calls[p].op = "execute_query"
        => /\ Len(calls[p].sent) <= 1
           /\ (Done(p) /\ calls[p].outcome.kind = "query_error")
                => /\ Len(calls[p].sent) = 1
                   /\ calls[p].result =
                         Return(<<"{", "'", "error", "': '",
                                  calls[p].outcome.msg, "'", "}">>)
           /\ (Done(p) /\ calls[p].outcome.kind = "other_error")
                => /\ Len(calls[p].sent) = 1
                   /\ calls[p].result =
                         Return(<<"{", "'", "error", "': '", "Unexpected error: ",
                                  calls[p].outcome.msg, "'", "}">>)

\* One execute_query ended on a query-level failure and another on an
\* unexpected one.
C15_Witness ==
    \E p, q \in Procs :
        /\ Done(p) /\ calls[p].op = "execute_query"
        /\ calls[p].outcome.kind = "query_error"
        /\ Done(q) /\ calls[q].op = "execute_query"
        /\ calls[q].outcome.kind = "other_error"

\* C16: a step of an execute_query, get_schema, get_type_info or list_types
\* call leaves graphql_client and the endpoint and headers of every client
\* as they were and constructs no client; a step that returns the guidance
\* or the rejection string changes nothing of the connection holder at all.
C16_ReadersKeepConnection ==
    [][\A p \in Procs :
          (calls'[p] # calls[p] /\ calls'[p].op \in Readers)
          => /\ graphql_client' = graphql_client
             /\ Len(clients') = Len(clients)
             /\ \A i \in 1..Len(clients) :
                   /\ clients'[i].endpoint_url = clients[i].endpoint_url
                   /\ clients'[i].headers = clients[i].headers
             /\ (calls'[p].result \in {Return(GUIDANCE), Return(REJECTION)})
                   => UNCHANGED <<graphql_client, clients>>]_vars

\* An execute_query call that the Engine failed has ended with the
\* connection it found still current, and another call got the rejection
\* string.
C16_Witness ==
    \E p, q \in Procs :
        /\ Done(p) /\ calls[p].op = "execute_query"
        /\ calls[p].outcome.kind = "other_error"
        /\ graphql_client = calls[p].conn
        /\ Done(q) /\ calls[q].op = "execute_query"
        /\ calls[q].result = Return(REJECTION)

\* C17: get_schema, get_type_info and list_types read the schema of a client
\* only once a schema fetch for that client has succeeded, never while it is
\* absent because the fetch failed or is still in flight.
C17_SchemaReadAfterFetch ==
    \A p \in Procs :
        (/\ Done(p)
         /\ calls[p].op \in {"get_schema", "get_type_info", "list_types"}
         /\ calls[p].conn # 0
         /\ calls[p].fetches = 0)
        => /\ calls[p].ready
           /\ calls[p].result # Raise("AttributeError")
           /\ calls[p].result # Return(<<"None">>)

\* The headers of client o are those a setup_connection call c asked for.
HeadersOfCall(o, c) ==
    /\ c.auth_token = {} => o.headers = {}
    /\ o.headers # {} =>
          /\ c.auth_token # {}
          /\ o.headers = {<< <<"Authorization",
                              <<"Bearer ">> \o Some(c.auth_token)>> >>}

\* A step in which the setup_connection call in slot p returns the success
\* string.
ReturnsConnected(p) ==
    /\ calls[p].op = "setup_connection" /\ calls[p].pc # "done"
    /\ calls'[p].op = "setup_connection" /\ calls'[p].pc = "done"
    /\ calls'[p].result = Return(CONNECTED)

\* C18 as stated: when a setup_connection call returns the success string,
\* the current connection is Ready and has the endpoint and the headers of
\* that call, in every interleaving of concurrent setup_connection calls.
C18_SuccessMeansCurrentReady ==
    [][\A p \in Procs :
          ReturnsConnected(p)
          => /\ graphql_client' # 0
             /\ LET o == clients'[graphql_client']
                IN  /\ o.schema # {}
                    /\ o.endpoint_url = calls'[p].endpoint_url
                    /\ HeadersOfCall(o, calls'[p])]_vars

\* C18 amended: when a setup_connection call returns the success string, the
\* client that call constructed is Ready and has the endpoint and the headers
\* of that call; it is the current connection unless a setup_connection call
\* was invoked after it.
C18_SuccessMeansOwnClientReady ==
    [][\A p \in Procs :
          ReturnsConnected(p)
          => LET o == clients'[calls'[p].made]
             IN  /\ o.schema = {calls'[p].endpoint_url}
                 /\ o.endpoint_url = calls'[p].endpoint_url
                 /\ HeadersOfCall(o, calls'[p])
                 /\ calls'[p].made = Len(clients')
                       => graphql_client' = calls'[p].made]_vars

\* A setup_connection call returned the success string after a call invoked
\* later had replaced its client as the current connection.
C18_Witness ==
    \E p \in Procs :
        /\ Done(p) /\ calls[p].op = "setup_connection"
        /\ calls[p].result = Return(CONNECTED)
        /\ calls[p].overlap # {}
        /\ calls[p].made < Len(clients)
        /\ graphql_client # calls[p].made

\* C19: an invocation works on one client from start to end, also when a
\* setup_connection call replaces the current connection meanwhile: the
\* Engine request of an execute_query call goes to the client, endpoint and
\* headers that were current when it was invoked, and get_type_info and
\* list_types read the schema of the client they called initialize() on,
\* which is the one they found.
C19_OneClientPerCall ==
    \A p \in Procs :
        /\ (calls[p].op = "execute_query" /\ calls[p].sent # <<>>)
              => /\ calls[p].self = calls[p].conn
                 /\ \A i \in 1..Len(calls[p].sent) :
                       /\ calls[p].sent[i].client = calls[p].conn
                       /\ calls[p].sent[i].endpoint_url
                             = clients[calls[p].conn].endpoint_url
                       /\ calls[p].sent[i].headers = clients[calls[p].conn].headers
        /\ (calls[p].op \in {"get_type_info", "list_types"} /\ calls[p].read # 0)
              => /\ calls[p].self = calls[p].conn
                 /\ calls[p].read = calls[p].self

\* An execute_query call was answered after a setup_connection call had
\* replaced the connection it was invoked on, with another endpoint.
C19_Witness ==
    \E p \in Procs :
        /\ Done(p) /\ calls[p].op = "execute_query"
        /\ calls[p].outcome.kind = "result"
        /\ calls[p].conn # 0 /\ graphql_client # calls[p].conn
        /\ clients[graphql_client].endpoint_url
              # clients[calls[p].conn].endpoint_url
        /\ calls[p].sent[1].client = calls[p].conn

====
